---------------------------- MODULE Spec2Model ----------------------------
(***************************************************************************)
(* EnvEnc (src/src/lib.rs): encrypted NAME=VALUE store in the file ".env", *)
(* key material cached in the process environment, decrypted values        *)
(* exposed through the process environment.                                *)
(*                                                                         *)
(* Every Rust string (String, &str, the file's content, an environment     *)
(* name or value) is the sequence of its UTF-8 bytes, so as_bytes() and    *)
(* the file's content need no conversion and String::from_utf8 is a        *)
(* validation.  A panic (expect, from_slice, env::set_var) is the result   *)
(* [ok |-> FALSE, ...]; what the call did before it panicked stays done.   *)
(***************************************************************************)
EXTENDS Integers, Sequences, FiniteSets, TLC

(***************************************************************************)
(* CipherType                                                              *)
(***************************************************************************)
CipherType == {"ChaCha20Poly1305", "AES256GCM"}

key_size(cipher_type) ==
    CASE cipher_type = "ChaCha20Poly1305" -> 32
      [] cipher_type = "AES256GCM" -> 32

nonce_size(cipher_type) ==
    CASE cipher_type = "ChaCha20Poly1305" -> 12
      [] cipher_type = "AES256GCM" -> 12

\* Display for CipherType: "CHACHA20POLY1305" and "AES256GCM".
Label(cipher_type) ==
    CASE cipher_type = "ChaCha20Poly1305" ->
             <<67, 72, 65, 67, 72, 65, 50, 48, 80, 79, 76, 89, 49, 51, 48, 53>>
      [] cipher_type = "AES256GCM" -> <<65, 69, 83, 50, 53, 54, 71, 67, 77>>

\* format!("{}_KEY", cipher_type) and format!("{}_NONCE", cipher_type).
KeyVar(cipher_type) == Label(cipher_type) \o <<95, 75, 69, 89>>
NonceVar(cipher_type) == Label(cipher_type) \o <<95, 78, 79, 78, 67, 69>>

(***************************************************************************)
(* hex::encode (lower case) and hex::decode (either case; an odd length or *)
(* a byte that is no hex digit is an error).                               *)
(***************************************************************************)
HexDigit(n) == IF n < 10 THEN 48 + n ELSE 87 + n

HexValue(c) ==
    IF c >= 48 /\ c <= 57 THEN c - 48
    ELSE IF c >= 97 /\ c <= 102 THEN c - 87
    ELSE IF c >= 65 /\ c <= 70 THEN c - 55
    ELSE -1

HexEncode(bytes) ==
    [i \in 1..(2 * Len(bytes)) |->
        IF i % 2 = 1 THEN HexDigit(bytes[(i + 1) \div 2] \div 16)
                     ELSE HexDigit(bytes[i \div 2] % 16)]

HexDecode(s) ==
    IF Len(s) % 2 = 1 \/ \E i \in 1..Len(s) : HexValue(s[i]) < 0
    THEN [ok |-> FALSE, val |-> <<>>]
    ELSE [ok |-> TRUE,
          val |-> [i \in 1..(Len(s) \div 2) |->
                      16 * HexValue(s[2 * i - 1]) + HexValue(s[2 * i])]]

(***************************************************************************)
(* String::from_utf8: the bytes are well-formed UTF-8 (no overlong form,   *)
(* no surrogate, nothing above U+10FFFF).                                  *)
(***************************************************************************)
IsCont(bytes, i) == i >= 1 /\ i <= Len(bytes) /\ bytes[i] >= 128 /\ bytes[i] <= 191

\* The continuation bytes a leading byte asks for; -1 for a byte that cannot
\* lead (a continuation byte, 0xC0, 0xC1, 0xF5 and above).
Utf8Need(b) ==
    IF b < 128 THEN 0
    ELSE IF b >= 194 /\ b <= 223 THEN 1
    ELSE IF b >= 224 /\ b <= 239 THEN 2
    ELSE IF b >= 240 /\ b <= 244 THEN 3
    ELSE -1

\* Every leading byte is followed by the continuation bytes it asks for (the
\* first of them in the range that excludes overlong forms, surrogates and
\* code points above U+10FFFF), and every continuation byte follows one.
Utf8Valid(bytes) ==
    \A i \in 1..Len(bytes) :
        LET b == bytes[i]
        IN  IF b >= 128 /\ b <= 191
            THEN \E k \in 1..3 :
                    /\ i - k >= 1
                    /\ Utf8Need(bytes[i - k]) >= k
                    /\ \A m \in 1..(k - 1) : IsCont(bytes, i - m)
            ELSE /\ Utf8Need(b) >= 0
                 /\ \A k \in 1..Utf8Need(b) : IsCont(bytes, i + k)
                 /\ (b = 224 => bytes[i + 1] >= 160)
                 /\ (b = 237 => bytes[i + 1] <= 159)
                 /\ (b = 240 => bytes[i + 1] >= 144)
                 /\ (b = 244 => bytes[i + 1] <= 143)

(***************************************************************************)
(* The AEAD primitives (crates chacha20poly1305 and aes_gcm) are opaque to *)
(* this program.  They are modelled by a keyed stream and a 16-byte tag    *)
(* over (suite, key, nonce, ciphertext): sealing appends the tag, opening  *)
(* checks it and fails on a mismatch or on fewer than 16 bytes.            *)
(***************************************************************************)
TagSize == 16

SuiteMix(cipher_type) ==
    CASE cipher_type = "ChaCha20Poly1305" -> 7
      [] cipher_type = "AES256GCM" -> 11

KeyStream(cipher_type, key, nonce, i) ==
    (key[((i - 1) % Len(key)) + 1] + nonce[((i - 1) % Len(nonce)) + 1]
        + SuiteMix(cipher_type) * i) % 256

RECURSIVE MacSum(_, _)
MacSum(ct, i) == IF i > Len(ct) THEN 0 ELSE (i * ct[i] + MacSum(ct, i + 1)) % 256

AeadTag(cipher_type, key, nonce, ct) ==
    LET m == MacSum(ct, 1) + Len(ct)
    IN  [j \in 1..TagSize |->
            (key[j] + 3 * key[j + TagSize] + nonce[((j - 1) % Len(nonce)) + 1]
                + m + SuiteMix(cipher_type) * j) % 256]

AeadSeal(cipher_type, key, nonce, plaintext) ==
    LET ct == [i \in 1..Len(plaintext) |->
                  (plaintext[i] + KeyStream(cipher_type, key, nonce, i)) % 256]
    IN  ct \o AeadTag(cipher_type, key, nonce, ct)

AeadOpen(cipher_type, key, nonce, data) ==
    IF Len(data) < TagSize THEN [ok |-> FALSE, val |-> <<>>]
    ELSE LET n == Len(data) - TagSize
             ct == SubSeq(data, 1, n)
         IN  IF SubSeq(data, n + 1, Len(data)) # AeadTag(cipher_type, key, nonce, ct)
             THEN [ok |-> FALSE, val |-> <<>>]
             ELSE [ok |-> TRUE,
                   val |-> [i \in 1..n |->
                       (ct[i] + 256 - KeyStream(cipher_type, key, nonce, i)) % 256]]

\* Key::from_slice and Nonce::from_slice panic on a slice of another length.
SlicesFit(cipher_type, key, nonce) ==
    Len(key) = key_size(cipher_type) /\ Len(nonce) = nonce_size(cipher_type)

\* encrypt: [ok |-> FALSE] is the panic (from_slice, "encryption failure!").
encrypt(cipher_type, key, nonce, plaintext) ==
    IF ~SlicesFit(cipher_type, key, nonce) THEN [ok |-> FALSE, val |-> <<>>]
    ELSE [ok |-> TRUE, val |-> AeadSeal(cipher_type, key, nonce, plaintext)]

\* A decrypt that opens with the primitive of the other suite.
decrypt_other_suite(cipher_type, key, nonce, ciphertext) ==
    IF ~SlicesFit(cipher_type, key, nonce) THEN [ok |-> FALSE, val |-> <<>>]
    ELSE AeadOpen(CHOOSE c \in CipherType : c # cipher_type, key, nonce, ciphertext)

\* decrypt: [ok |-> FALSE] is the panic (from_slice, "decryption failure!").
decrypt(cipher_type, key, nonce, ciphertext) ==
    IF ~SlicesFit(cipher_type, key, nonce) THEN [ok |-> FALSE, val |-> <<>>]
    ELSE AeadOpen(cipher_type, key, nonce, ciphertext)

(***************************************************************************)
(* The process environment: a function from names to values.               *)
(***************************************************************************)
\* env::var(name): Err when the variable is not set.
EnvVar(e, name) ==
    IF name \in DOMAIN e THEN [ok |-> TRUE, val |-> e[name]]
    ELSE [ok |-> FALSE, val |-> <<>>]

HasByte(s, c) == \E i \in 1..Len(s) : s[i] = c

\* env::set_var panics on an empty name, on '=' or NUL in the name and on NUL
\* in the value.
SetVarPanics(name, value) ==
    name = <<>> \/ HasByte(name, 61) \/ HasByte(name, 0) \/ HasByte(value, 0)

SetVar(e, name, value) ==
    [n \in (DOMAIN e) \cup {name} |-> IF n = name THEN value ELSE e[n]]

(***************************************************************************)
(* Text helpers: str::trim, lines(), split_once('=').                      *)
(* Only the ASCII white space of char::is_whitespace is modelled; no       *)
(* string of the model holds a multi-byte white-space character.           *)
(***************************************************************************)
IsSpace(c) == c \in {9, 10, 11, 12, 13, 32}

SetMin(S) == CHOOSE x \in S : \A y \in S : x <= y
SetMax(S) == CHOOSE x \in S : \A y \in S : x >= y

Trim(s) ==
    LET keep == {i \in 1..Len(s) : ~IsSpace(s[i])}
    IN  IF keep = {} THEN <<>> ELSE SubSeq(s, SetMin(keep), SetMax(keep))

TrimStart(s) ==
    LET keep == {i \in 1..Len(s) : ~IsSpace(s[i])}
    IN  IF keep = {} THEN <<>> ELSE SubSeq(s, SetMin(keep), Len(s))

\* lines(): split at '\n'; the '\n' and a '\r' before it are dropped; a last
\* line need not end in '\n'.
Lines(content) ==
    LET nl == {i \in 1..Len(content) : content[i] = 10}
        starts == IF Len(content) = 0 THEN {}
                  ELSE {1} \cup {i + 1 : i \in {j \in nl : j < Len(content)}}
        startAt(k) == CHOOSE s \in starts :
                          Cardinality({t \in starts : t < s}) = k - 1
        lineAt(s) ==
            LET after == {i \in nl : i >= s}
                stop == IF after = {} THEN Len(content) ELSE SetMin(after) - 1
                cr == after # {} /\ stop >= s /\ content[stop] = 13
            IN  SubSeq(content, s, IF cr THEN stop - 1 ELSE stop)
    IN  [k \in 1..Cardinality(starts) |-> lineAt(startAt(k))]

\* line.split_once('='): None without '=', otherwise the parts around the
\* first '='.
SplitOnce(line) ==
    LET eqs == {i \in 1..Len(line) : line[i] = 61}
    IN  IF eqs = {} THEN [ok |-> FALSE, key |-> <<>>, value |-> <<>>]
        ELSE [ok |-> TRUE,
              key |-> SubSeq(line, 1, SetMin(eqs) - 1),
              value |-> SubSeq(line, SetMin(eqs) + 1, Len(line))]

\* The loop of set_enc_env and read_env_enc over the lines: every line with
\* an '=' inserts (key.trim(), value.trim()); a HashMap insert replaces, so
\* the last line of a key decides its value.
ParseLines(lines) ==
    LET idx == {i \in 1..Len(lines) : SplitOnce(lines[i]).ok}
        keyOf(i) == Trim(SplitOnce(lines[i]).key)
        keys == {keyOf(i) : i \in idx}
    IN  [k \in keys |->
            Trim(SplitOnce(lines[SetMax({i \in idx : keyOf(i) = k})]).value)]

\* The file ".env": [exists, content].  File::open fails on an absent file.
NoFile == [exists |-> FALSE, content |-> <<>>]
FileOf(content) == [exists |-> TRUE, content |-> content]

\* set_enc_env's read: BufReader::lines() with filter_map(Result::ok) drops
\* exactly the lines that are not UTF-8.
StoreOfSet(f) ==
    IF ~f.exists THEN <<>>
    ELSE ParseLines(SelectSeq(Lines(f.content), Utf8Valid))

\* read_env_enc's read: fs::read_to_string fails on an absent file and on a
\* content that is not UTF-8 as a whole; both leave the map empty.
StoreOfRead(f) ==
    IF ~f.exists \/ ~Utf8Valid(f.content) THEN <<>>
    ELSE ParseLines(Lines(f.content))

\* The orders in which a HashMap with key set S may be iterated.
Orders(S) ==
    {o \in [1..Cardinality(S) -> S] :
        \A i, j \in 1..Cardinality(S) : i # j => o[i] # o[j]}

\* writeln!(writer, "{}={}", key, value) for the entries in iteration order.
RECURSIVE WriteFrom(_, _, _)
WriteFrom(m, order, i) ==
    IF i > Len(order) THEN <<>>
    ELSE order[i] \o <<61>> \o m[order[i]] \o <<10>> \o WriteFrom(m, order, i + 1)

WriteStore(m, order) == WriteFrom(m, order, 1)

(***************************************************************************)
(* dotenv().ok() (crate dotenv, called by read_env_enc): the lines of      *)
(* ".env" are parsed in file order; every KEY=VALUE line sets KEY in the   *)
(* process environment unless KEY is set already; the first line that does *)
(* not parse ends the load, and .ok() drops the error.  Quoting, escapes   *)
(* and $-substitution (bytes 34, 39, 92, 36) are outside the strings of    *)
(* the model: a line holding one of them is taken as a line that does not  *)
(* parse.                                                                  *)
(***************************************************************************)
IsKeyStart(c) == (c >= 65 /\ c <= 90) \/ (c >= 97 /\ c <= 122) \/ c = 95
IsKeyByte(c) == IsKeyStart(c) \/ (c >= 48 /\ c <= 57) \/ c = 46

DotenvSkip == [kind |-> "skip", key |-> <<>>, value |-> <<>>]
DotenvErr == [kind |-> "err", key |-> <<>>, value |-> <<>>]

\* parse_value on an unquoted value: bytes up to the first ' ' or '\t'; after
\* it only ' ' and '\t' may follow, or a '#' comment.
DotenvValue(key, rest) ==
    LET blanks == {i \in 1..Len(rest) : rest[i] \in {32, 9}}
        stop == IF blanks = {} THEN Len(rest) + 1 ELSE SetMin(blanks)
        tail == {i \in stop..Len(rest) : rest[i] \notin {32, 9}}
    IN  IF \E i \in 1..Len(rest) : rest[i] \in {34, 39, 92, 36} THEN DotenvErr
        ELSE IF tail # {} /\ rest[SetMin(tail)] # 35 THEN DotenvErr
        ELSE [kind |-> "pair", key |-> key, value |-> SubSeq(rest, 1, stop - 1)]

\* parse_key, then '=', then the value.
DotenvKeyValue(l) ==
    LET nonKey == {i \in 1..Len(l) : ~IsKeyByte(l[i])}
        klen == IF nonKey = {} THEN Len(l) ELSE SetMin(nonKey) - 1
        key == SubSeq(l, 1, klen)
        afterKey == TrimStart(SubSeq(l, klen + 1, Len(l)))
        rest == TrimStart(SubSeq(afterKey, 2, Len(afterKey)))
    IN  IF l = <<>> \/ ~IsKeyStart(l[1]) THEN DotenvErr
        ELSE IF afterKey = <<>> \/ afterKey[1] # 61 THEN DotenvErr
        ELSE IF rest = <<>> \/ rest[1] = 35
             THEN [kind |-> "pair", key |-> key, value |-> <<>>]
        ELSE DotenvValue(key, rest)

\* parse_line: blank lines and '#' comments are skipped; "export" may precede
\* the key.
DotenvLine(line) ==
    LET l == TrimStart(line)
        export == <<101, 120, 112, 111, 114, 116>>
        isExport == Len(l) > 6 /\ SubSeq(l, 1, 6) = export /\ ~IsKeyByte(l[7])
        afterExport == TrimStart(SubSeq(l, 7, Len(l)))
    IN  IF l = <<>> \/ l[1] = 35 THEN DotenvSkip
        ELSE IF isExport /\ (afterExport = <<>> \/ afterExport[1] # 61)
             THEN DotenvKeyValue(afterExport)
        ELSE DotenvKeyValue(l)

\* Iter::load over the lines from line i on: [ok, env]; ok is FALSE when
\* env::set_var panics.
RECURSIVE DotenvFrom(_, _, _)
DotenvFrom(e, lines, i) ==
    IF i > Len(lines) THEN [ok |-> TRUE, env |-> e]
    ELSE LET p == IF Utf8Valid(lines[i]) THEN DotenvLine(lines[i]) ELSE DotenvErr
         IN  IF p.kind = "err" THEN [ok |-> TRUE, env |-> e]
             ELSE IF p.kind = "skip" \/ EnvVar(e, p.key).ok
                  THEN DotenvFrom(e, lines, i + 1)
             ELSE IF SetVarPanics(p.key, p.value) THEN [ok |-> FALSE, env |-> e]
             ELSE DotenvFrom(SetVar(e, p.key, p.value), lines, i + 1)

dotenv(e, f) ==
    IF ~f.exists THEN [ok |-> TRUE, env |-> e]
    ELSE DotenvFrom(e, Lines(f.content), 1)

(***************************************************************************)
(* The library's functions as operators on (environment, file).            *)
(***************************************************************************)
\* An arm of keys_generation that never looks at the cached variable.
AlwaysFresh(e, var, fresh) ==
    [ok |-> TRUE, env |-> SetVar(e, var, HexEncode(fresh)), val |-> fresh]

\* One arm of keys_generation (the key or the nonce): the cached hex of
\* variable `var`, decoded, or the `fresh` bytes of the random generator,
\* which are then cached.  [ok, env, val]; ok is FALSE on "Invalid ... hex".
CachedOrFresh(e, var, fresh) ==
    IF EnvVar(e, var).ok
    THEN [ok |-> HexDecode(e[var]).ok, env |-> e, val |-> HexDecode(e[var]).val]
    ELSE [ok |-> TRUE, env |-> SetVar(e, var, HexEncode(fresh)), val |-> fresh]

\* keys_generation(cipher_type) with the random generator yielding freshKey
\* and freshNonce: [ok, env, key, nonce].
keys_generation(e, cipher_type, freshKey, freshNonce) ==
    LET k == CachedOrFresh(e, KeyVar(cipher_type), freshKey)
        n == CachedOrFresh(k.env, NonceVar(cipher_type), freshNonce)
    IN  IF ~k.ok THEN [ok |-> FALSE, env |-> e, key |-> <<>>, nonce |-> <<>>]
        ELSE IF ~n.ok
             THEN [ok |-> FALSE, env |-> k.env, key |-> <<>>, nonce |-> <<>>]
        ELSE [ok |-> TRUE, env |-> n.env, key |-> k.val, nonce |-> n.val]

\* hex::encode(nonce || ciphertext), the value set_enc_env stores.
EncryptedValue(cipher_type, key, nonce, var_text) ==
    HexEncode(nonce \o encrypt(cipher_type, key, nonce, var_text).val)

\* set_enc_env's decision on the map it read: is var_name a key of it?
AlreadyExists(env_vars, var_name) == var_name \in DOMAIN env_vars

\* The map set_enc_env writes back: the map read plus the new entry.
Inserted(env_vars, var_name, encrypted_value) ==
    [k \in (DOMAIN env_vars) \cup {var_name} |->
        IF k = var_name THEN encrypted_value ELSE env_vars[k]]

\* The files set_enc_env may leave: the file as it is when encrypt panics or
\* the name exists, otherwise the rewritten file in one iteration order of
\* the map.
set_enc_env(f, var_name, var_text, cipher_type, key, nonce) ==
    LET env_vars == StoreOfSet(f)
        m == Inserted(env_vars, var_name,
                      EncryptedValue(cipher_type, key, nonce, var_text))
    IN  IF ~encrypt(cipher_type, key, nonce, var_text).ok
        THEN {[ok |-> FALSE, exists |-> FALSE, file |-> f]}
        ELSE IF AlreadyExists(env_vars, var_name)
             THEN {[ok |-> TRUE, exists |-> TRUE, file |-> f]}
        ELSE {[ok |-> TRUE, exists |-> FALSE, file |-> FileOf(WriteStore(m, o))] :
                 o \in Orders(DOMAIN m)}

\* read_env_enc: dotenv().ok(), then the map of the file: [ok, env, map].
read_env_enc(e, f) ==
    LET d == dotenv(e, f)
    IN  [ok |-> d.ok, env |-> d.env, map |-> IF d.ok THEN StoreOfRead(f) ELSE <<>>]

\* A decrypt_env that takes the nonce of its caller.
CallerNonce(cipher_type, combined, _nonce) == _nonce

\* A decrypt_env that passes over an entry that does not authenticate.
DecryptEntrySkipping(var_name, enc_value, cipher_type, key, _nonce) ==
    LET combined == HexDecode(enc_value)
        nonce_used == SubSeq(combined.val, 1, nonce_size(cipher_type))
        ciphertext == SubSeq(combined.val, nonce_size(cipher_type) + 1,
                             Len(combined.val))
        decrypted == decrypt(cipher_type, key, nonce_used, ciphertext)
    IN  IF ~combined.ok \/ Len(combined.val) < nonce_size(cipher_type)
           \/ ~decrypted.ok
        THEN [kind |-> "skip", val |-> <<>>]
        ELSE IF ~Utf8Valid(decrypted.val) \/ SetVarPanics(var_name, decrypted.val)
             THEN [kind |-> "panic", val |-> <<>>]
        ELSE [kind |-> "set", val |-> decrypted.val]

\* One entry of decrypt_env's loop: "skip" (invalid hex, or shorter than the
\* nonce), "panic" (decrypt, from_utf8 or set_var panics) or "set" with the
\* plaintext.  The nonce is the entry's own; _nonce is not read.
EntryNonce(cipher_type, combined, _nonce) == SubSeq(combined, 1, nonce_size(cipher_type))

DecryptEntry(var_name, enc_value, cipher_type, key, _nonce) ==
    LET combined == HexDecode(enc_value)
        nonce_used == EntryNonce(cipher_type, combined.val, _nonce)
        ciphertext == SubSeq(combined.val, nonce_size(cipher_type) + 1,
                             Len(combined.val))
        decrypted == decrypt(cipher_type, key, nonce_used, ciphertext)
    IN  IF ~combined.ok THEN [kind |-> "skip", val |-> <<>>]
        ELSE IF Len(combined.val) < nonce_size(cipher_type)
             THEN [kind |-> "skip", val |-> <<>>]
        ELSE IF ~decrypted.ok \/ ~Utf8Valid(decrypted.val)
                  \/ SetVarPanics(var_name, decrypted.val)
             THEN [kind |-> "panic", val |-> <<>>]
        ELSE [kind |-> "set", val |-> decrypted.val]

\* decrypt_env's loop from position i of the iteration order:
\* [ok, env, at]; at is the position of the entry that panicked, 0 if none.
RECURSIVE DecryptFrom(_, _, _, _, _, _, _)
DecryptFrom(e, env_vars, order, i, cipher_type, key, _nonce) ==
    IF i > Len(order) THEN [ok |-> TRUE, env |-> e, at |-> 0]
    ELSE LET r == DecryptEntry(order[i], env_vars[order[i]], cipher_type, key, _nonce)
         IN  IF r.kind = "panic" THEN [ok |-> FALSE, env |-> e, at |-> i]
             ELSE DecryptFrom(IF r.kind = "set" THEN SetVar(e, order[i], r.val) ELSE e,
                              env_vars, order, i + 1, cipher_type, key, _nonce)

decrypt_env(e, env_vars, order, cipher_type, key, _nonce) ==
    DecryptFrom(e, env_vars, order, 1, cipher_type, key, _nonce)

\* read_env(var_name): env::var(var_name).ok().
read_env(e, var_name) == EnvVar(e, var_name)

(***************************************************************************)
(* Inputs of the model.                                                    *)
(***************************************************************************)
\* The set_enc_env calls of one run.
MaxSets == 2

\* What the random generator may yield for (key, nonce).
Draws ==
    {<<[i \in 1..32 |-> i], [i \in 1..12 |-> 2 * i]>>,
     <<[i \in 1..32 |-> 200 - i], [i \in 1..12 |-> 100 + i]>>}

\* The nonces a caller may pass to decrypt_env.
NoncePool == {d[2] : d \in Draws}

\* Variable names "X" and " X".
Names == {<<88>>, <<32, 88>>}

\* Values "" and "a" for set_enc_env; encrypt is also given a two-character
\* text with a two-byte character ("b", U+00E9).
Texts == {<<>>, <<97>>}
PlainTexts == Texts \cup {<<98, 195, 169>>}

\* An entry sealed under a key the random generator does not yield: "a" under
\* AES256GCM, as a previous run of the program leaves it.
ForeignValue ==
    EncryptedValue("AES256GCM", [i \in 1..32 |-> 3 * i], [i \in 1..12 |-> i], <<97>>)

\* The file the process finds: none; "BAD=zz" (a value that is no hex); "T="
\* with the hex of twelve zero bytes (a nonce and nothing else) and "W=" with
\* a foreign entry.
InitFiles ==
    {NoFile,
     FileOf(<<66, 65, 68, 61, 122, 122, 10>>),
     FileOf(<<84, 61>> \o [i \in 1..24 |-> 48] \o <<10>>
            \o <<87, 61>> \o ForeignValue \o <<10>>)}

\* The environment the process starts in: empty, or with AES256GCM_KEY set.
InitEnvs ==
    {<<>>,
     [n \in {KeyVar("AES256GCM")} |-> HexEncode([i \in 1..32 |-> 64 + i])]}

NoMaterial == [has |-> FALSE, key |-> <<>>, nonce |-> <<>>]

(***************************************************************************)
(* State.  env and file are the process environment and ".env".  The rest  *)
(* is what the caller holds: cipher_type, the suite of the run; held[c],   *)
(* the (key, nonce) keys_generation(c) returned; loaded, the map           *)
(* read_env_enc returned (with the names that were set in the environment  *)
(* when it was called); ret, the last call and its result.  pc is the      *)
(* caller's position: "start", "set", "decrypt", "read" and "exit" are the *)
(* positions of main (keys_generation, set_enc_env ..., read_env_enc,      *)
(* decrypt_env, read_env ...); "free" is a caller that makes the calls in  *)
(* any order.  first records, per var_name, the text and the value of the  *)
(* first set_enc_env call that wrote it, and which call it was; sets       *)
(* counts the set_enc_env calls.  threads and overlap belong to the two     *)
(* concurrent set_enc_env calls further down.                              *)
(***************************************************************************)
VARIABLES env, file, cipher_type, held, loaded, ret, pc, first, sets,
          threads, overlap

vars == <<env, file, cipher_type, held, loaded, ret, pc, first, sets,
          threads, overlap>>

\* The two threads that call set_enc_env concurrently, and a thread that has
\* not called yet.
Threads == {1, 2}
IdleThread == [pc |-> "idle", name |-> <<>>, value |-> <<>>, map |-> <<>>]

\* The caller's next position: a free caller stays free, a panic ends main.
Goto(ok, next) == IF pc = "free" THEN "free" ELSE IF ok THEN next ELSE "exit"

InitCaller ==
    /\ cipher_type \in CipherType
    /\ held = [c \in CipherType |-> NoMaterial]
    /\ loaded = [has |-> FALSE, map |-> <<>>, before |-> {}]
    /\ ret = [op |-> "none"]
    /\ first = <<>>
    /\ sets = 0
    /\ threads = [t \in Threads |-> IdleThread]
    /\ overlap = FALSE

\* main, from its first line.
Init ==
    /\ env = <<>>
    /\ file \in InitFiles
    /\ pc = "start"
    /\ InitCaller

\* let (key, nonce) = keys_generation(cipher_type);
KeysGeneration(c) ==
    /\ pc = "free" \/ (pc = "start" /\ c = cipher_type)
    /\ \E d \in Draws :
          LET r == keys_generation(env, c, d[1], d[2])
          IN  /\ env' = r.env
              /\ held' = IF r.ok
                         THEN [held EXCEPT ![c] =
                                  [has |-> TRUE, key |-> r.key, nonce |-> r.nonce]]
                         ELSE held
              /\ ret' = [op |-> "keys_generation", ok |-> r.ok, ct |-> c,
                         fk |-> d[1], fn |-> d[2], again |-> held[c].has]
              /\ pc' = Goto(r.ok, "set")
    /\ UNCHANGED <<file, cipher_type, loaded, first, sets, threads, overlap>>

\* set_enc_env(var_name, var_text, cipher_type, &key, &nonce);
SetEncEnv(var_name, var_text, c) ==
    /\ pc = "free" \/ (pc = "set" /\ c = cipher_type)
    /\ sets < MaxSets
    /\ held[c].has
    /\ \E r \in set_enc_env(file, var_name, var_text, c, held[c].key, held[c].nonce) :
          LET wrote == r.ok /\ ~r.exists
              value == EncryptedValue(c, held[c].key, held[c].nonce, var_text)
          IN  /\ file' = r.file
              /\ ret' = [op |-> "set_enc_env", ok |-> r.ok, exists |-> r.exists,
                         name |-> var_name, value |-> value]
              /\ first' = IF wrote /\ var_name \notin DOMAIN first
                          THEN SetVar(first, var_name,
                                      [text |-> var_text, value |-> value,
                                       at |-> sets + 1])
                          ELSE first
              /\ pc' = Goto(r.ok, "set")
    /\ sets' = sets + 1
    /\ UNCHANGED <<env, cipher_type, held, loaded, threads, overlap>>

\* let encrypted_env = read_env_enc();
ReadEnvEnc ==
    /\ pc = "set"
    /\ LET r == read_env_enc(env, file)
       IN  /\ env' = r.env
           /\ loaded' = IF r.ok
                        THEN [has |-> TRUE, map |-> r.map, before |-> DOMAIN env]
                        ELSE loaded
           /\ ret' = [op |-> "read_env_enc", ok |-> r.ok]
           /\ pc' = Goto(r.ok, "decrypt")
    /\ UNCHANGED <<file, cipher_type, held, first, sets, threads, overlap>>

\* decrypt_env(encrypted_env, cipher_type, &key, &nonce); the caller may pass
\* any nonce.  ret keeps the names processed before a panic (done) and the
\* name the call panicked at (failed).
DecryptEnv(_nonce) ==
    /\ pc = "decrypt"
    /\ \E order \in Orders(DOMAIN loaded.map) :
          LET r == decrypt_env(env, loaded.map, order, cipher_type,
                               held[cipher_type].key, _nonce)
          IN  /\ env' = r.env
              /\ ret' = [op |-> "decrypt_env", ok |-> r.ok, nonce |-> _nonce,
                         done |-> IF r.ok THEN DOMAIN loaded.map
                                  ELSE {order[i] : i \in 1..(r.at - 1)},
                         failed |-> IF r.ok THEN {} ELSE {order[r.at]}]
              /\ pc' = Goto(r.ok, "read")
    /\ UNCHANGED <<file, cipher_type, held, loaded, first, sets, threads, overlap>>

\* read_env(var_name)
ReadEnv(var_name) ==
    /\ pc \in {"read", "free"}
    /\ ret' = [op |-> "read_env", name |-> var_name,
               some |-> read_env(env, var_name).ok,
               val |-> read_env(env, var_name).val]
    /\ UNCHANGED <<env, file, cipher_type, held, loaded, first, sets, pc, threads, overlap>>

Next ==
    \/ KeysGeneration(cipher_type)
    \/ \E name \in Names, text \in Texts : SetEncEnv(name, text, cipher_type)
    \/ ReadEnvEnc
    \/ \E n \in NoncePool : DecryptEnv(n)
    \/ \E name \in Names \cup {<<66, 65, 68>>} : ReadEnv(name)

Spec == Init /\ [][Next]_vars

(***************************************************************************)
(* A caller of the key and cipher functions, in any order: keys_generation *)
(* for either suite, encrypt and decrypt, with set_enc_env and read_env    *)
(* calls between them.                                                     *)
(***************************************************************************)
InitKeys ==
    /\ env \in InitEnvs
    /\ file = NoFile
    /\ pc = "free"
    /\ InitCaller

\* let ciphertext = encrypt(cipher_type, &key, &nonce, plaintext);
Encrypt(c, plaintext) ==
    /\ pc = "free"
    /\ held[c].has
    /\ LET r == encrypt(c, held[c].key, held[c].nonce, plaintext)
       IN  ret' = [op |-> "encrypt", ok |-> r.ok, ct |-> c,
                   plaintext |-> plaintext, val |-> r.val]
    /\ UNCHANGED <<env, file, cipher_type, held, loaded, first, sets, pc, threads, overlap>>

\* A ciphertext with one bit of byte i flipped (the low bit).
Tampered(ciphertext, i) ==
    [ciphertext EXCEPT ![i] = IF @ % 2 = 0 THEN @ + 1 ELSE @ - 1]

\* let decrypted = decrypt(cipher_type, &key, &nonce, &ciphertext); on the
\* ciphertext encrypt returned, as it is (flip = 0) or with a bit flipped.
Decrypt(flip) ==
    /\ pc = "free"
    /\ ret.op = "encrypt" /\ ret.ok
    /\ flip <= Len(ret.val)
    /\ LET input == IF flip = 0 THEN ret.val ELSE Tampered(ret.val, flip)
           r == decrypt(ret.ct, held[ret.ct].key, held[ret.ct].nonce, input)
       IN  ret' = [op |-> "decrypt", ok |-> r.ok, ct |-> ret.ct,
                   plaintext |-> ret.plaintext, flip |-> flip, val |-> r.val]
    /\ UNCHANGED <<env, file, cipher_type, held, loaded, first, sets, pc, threads, overlap>>

NextKeys ==
    \/ \E c \in CipherType : KeysGeneration(c)
    \/ \E c \in CipherType, pt \in PlainTexts : Encrypt(c, pt)
    \/ \E flip \in {0, 1, 2} : Decrypt(flip)
    \/ \E c \in CipherType : SetEncEnv(<<88>>, <<97>>, c)
    \/ ReadEnv(<<88>>)

SpecKeys == InitKeys /\ [][NextKeys]_vars

(***************************************************************************)
(* Two threads of one process call set_enc_env at the same time.  The call *)
(* touches the file three times: it reads it (File::open, lines), it opens *)
(* it again truncating it (OpenOptions ... truncate(true)), and it writes  *)
(* its map when the BufWriter is dropped at the end of the call, at the    *)
(* start of the file, over whatever is there.  Both threads use the key    *)
(* material the process holds for cipher_type.                             *)
(***************************************************************************)
InitConc ==
    /\ env = <<>>
    /\ file \in {NoFile, FileOf(<<66, 65, 68, 61, 122, 122, 10>>)}
    /\ pc = "free"
    /\ cipher_type \in CipherType
    /\ \E d \in Draws :
          held = [c \in CipherType |->
                     IF c = cipher_type
                     THEN [has |-> TRUE, key |-> d[1], nonce |-> d[2]]
                     ELSE NoMaterial]
    /\ loaded = [has |-> FALSE, map |-> <<>>, before |-> {}]
    /\ ret = [op |-> "none"]
    /\ first = <<>>
    /\ sets = 0
    /\ threads = [t \in Threads |-> IdleThread]
    /\ overlap = FALSE

\* Is another thread between its read and the end of its call?
OtherInCall(t) == \E u \in Threads \ {t} : threads[u].pc \in {"open", "write"}

\* Bytes written at offset 0 of the file: they replace what is there and
\* leave what lies beyond them.
WriteAtStart(f, bytes) ==
    FileOf(bytes \o SubSeq(f.content, Len(bytes) + 1, Len(f.content)))

\* Thread t enters set_enc_env: it encrypts, reads the file into its map and
\* returns at once if var_name is a key of the map.
ThreadRead(t, var_name, var_text) ==
    /\ threads[t].pc = "idle"
    /\ LET value == EncryptedValue(cipher_type, held[cipher_type].key,
                                   held[cipher_type].nonce, var_text)
           env_vars == StoreOfSet(file)
       IN  threads' = [threads EXCEPT ![t] =
               [pc |-> IF AlreadyExists(env_vars, var_name) THEN "done" ELSE "open",
                name |-> var_name, value |-> value,
                map |-> IF AlreadyExists(env_vars, var_name) THEN env_vars
                        ELSE Inserted(env_vars, var_name, value)]]
    /\ overlap' = (overlap \/ OtherInCall(t))
    /\ UNCHANGED <<env, file, cipher_type, held, loaded, ret, pc, first, sets>>

\* OpenOptions::new().create(true).write(true).truncate(true).open(".env")
ThreadOpen(t) ==
    /\ threads[t].pc = "open"
    /\ file' = FileOf(<<>>)
    /\ threads' = [threads EXCEPT ![t].pc = "write"]
    /\ overlap' = (overlap \/ OtherInCall(t))
    /\ UNCHANGED <<env, cipher_type, held, loaded, ret, pc, first, sets>>

\* The writeln! loop and the drop of the BufWriter.
ThreadWrite(t) ==
    /\ threads[t].pc = "write"
    /\ \E order \in Orders(DOMAIN threads[t].map) :
          file' = WriteAtStart(file, WriteStore(threads[t].map, order))
    /\ threads' = [threads EXCEPT ![t].pc = "done"]
    /\ overlap' = (overlap \/ OtherInCall(t))
    /\ UNCHANGED <<env, cipher_type, held, loaded, ret, pc, first, sets>>

\* Variable names "X", "Y" and " X" for the threads.
ThreadNames == Names \cup {<<89>>}

NextConc ==
    \/ \E t \in Threads, name \in ThreadNames, text \in Texts :
          ThreadRead(t, name, text)
    \/ \E t \in Threads : ThreadOpen(t)
    \/ \E t \in Threads : ThreadWrite(t)

SpecConc == InitConc /\ [][NextConc]_vars

(***************************************************************************)
(* Properties.                                                             *)
(***************************************************************************)
\* The store set_enc_env sees in the file.
Store == StoreOfSet(file)

\* C1 (Spec): first write wins.  After any sequence of set_enc_env calls the
\* store holds, under every name a call wrote (the name as the store keeps
\* it, trimmed), the value of the earliest call that wrote it.
C1_FirstWriteWins ==
    \A n \in DOMAIN first :
        (\A m \in DOMAIN first : Trim(m) = Trim(n) => first[n].at <= first[m].at)
        => (Trim(n) \in DOMAIN Store /\ Store[Trim(n)] = first[n].value)

\* C2 (Spec): round trip through the store.  A name that set_enc_env wrote is
\* a key of the map read_env_enc returns, mapped to hex(nonce || ciphertext),
\* and after decrypt_env read_env of that name returns the text given to
\* set_enc_env.
C2_StoreRoundTrip ==
    /\ loaded.has =>
          \A n \in DOMAIN first :
              n \in DOMAIN loaded.map /\ loaded.map[n] = first[n].value
    /\ (ret.op = "read_env" /\ ret.name \in DOMAIN first) =>
          (ret.some /\ ret.val = first[ret.name].text)

\* C3 (SpecKeys): decrypt of what encrypt returned, under the same suite, key
\* and nonce, returns the plaintext.
C3_PrimitiveRoundTrip ==
    (ret.op = "decrypt" /\ ret.flip = 0) => (ret.ok /\ ret.val = ret.plaintext)

\* A three-byte plaintext has been encrypted and decrypted again.
C3_Witness ==
    /\ ret.op = "decrypt" /\ ret.flip = 0 /\ ret.ok
    /\ Len(ret.plaintext) = 3

\* C4 (SpecKeys): once keys_generation(c) has returned a pair, every further
\* keys_generation(c) returns that pair, whatever the random generator yields
\* and whatever calls were made since.
C4_IdempotentKeyCaching ==
    \A c \in CipherType :
        held[c].has =>
            \A d \in Draws :
                LET r == keys_generation(env, c, d[1], d[2])
                IN  r.ok /\ r.key = held[c].key /\ r.nonce = held[c].nonce

\* keys_generation has been called again for a suite, after calls for both
\* suites and a set_enc_env that wrote the file.
C4_Witness ==
    /\ ret.op = "keys_generation" /\ ret.ok /\ ret.again
    /\ \A c \in CipherType : held[c].has
    /\ file.exists

\* C5 (SpecKeys): keys_generation(c) returns the cached pair when both
\* variables are set; in every other case it returns the fresh key and the
\* fresh nonce and leaves their hex in both variables.
C5_ReuseOnlyWhenBothCached ==
    [][\A c \in CipherType :
          KeysGeneration(c) =>
              IF EnvVar(env, KeyVar(c)).ok /\ EnvVar(env, NonceVar(c)).ok
              THEN /\ ret'.ok
                   /\ held'[c].key = HexDecode(env[KeyVar(c)]).val
                   /\ held'[c].nonce = HexDecode(env[NonceVar(c)]).val
              ELSE /\ ret'.ok
                   /\ held'[c].key = ret'.fk
                   /\ held'[c].nonce = ret'.fn
                   /\ EnvVar(env', KeyVar(c)) = [ok |-> TRUE, val |-> HexEncode(ret'.fk)]
                   /\ EnvVar(env', NonceVar(c)) = [ok |-> TRUE, val |-> HexEncode(ret'.fn)]
      ]_vars

\* C6 (Spec): after read_env_enc and decrypt_env, for an entry whose value is
\* no hex (its name not set before read_env_enc) and an entry that decrypts
\* under the key, read_env of the first is None and read_env of the second is
\* its plaintext.
C6_CorruptEntryIsolation ==
    pc = "read" =>
        \A bad, good \in DOMAIN loaded.map :
            LET r == DecryptEntry(good, loaded.map[good], cipher_type,
                                  held[cipher_type].key, held[cipher_type].nonce)
            IN  (/\ ~HexDecode(loaded.map[bad]).ok
                 /\ bad \notin loaded.before
                 /\ r.kind = "set")
                => /\ read_env(env, good) = [ok |-> TRUE, val |-> r.val]
                   /\ ~read_env(env, bad).ok

\* C7 (Spec): for the entries read_env_enc returned, in any iteration order,
\* decrypt_env ends the same way (same environment, same panic) whatever
\* nonce it is given, one of the wrong length included.
C7_EmbeddedNonceWins ==
    pc = "decrypt" =>
        \A order \in Orders(DOMAIN loaded.map) :
            \A n1, n2 \in NoncePool \cup {<<>>} :
                decrypt_env(env, loaded.map, order, cipher_type,
                            held[cipher_type].key, n1)
                  = decrypt_env(env, loaded.map, order, cipher_type,
                                held[cipher_type].key, n2)

\* decrypt_env was given a nonce other than the one the entries were sealed
\* with, and set a name to the non-empty text set_enc_env was given.
C7_Witness ==
    /\ ret.op = "decrypt_env" /\ ret.ok
    /\ ret.nonce # held[cipher_type].nonce
    /\ \E n \in DOMAIN first :
          /\ first[n].text # <<>>
          /\ read_env(env, Trim(n)) = [ok |-> TRUE, val |-> first[n].text]

\* The entries of at least nonce_size bytes that do not authenticate under
\* the key and their own nonce.
Unauthentic(env_vars, c, key) ==
    {n \in DOMAIN env_vars :
        LET combined == HexDecode(env_vars[n])
        IN  /\ combined.ok
            /\ Len(combined.val) >= nonce_size(c)
            /\ ~decrypt(c, key,
                        SubSeq(combined.val, 1, nonce_size(c)),
                        SubSeq(combined.val, nonce_size(c) + 1,
                               Len(combined.val))).ok}

\* C8 (Spec): when an entry does not authenticate, decrypt_env panics at such
\* an entry, and every entry it did not get past (that entry and the ones
\* not yet processed) is in the environment as it was before the call.
C8_AuthFailureAborts ==
    [][(/\ pc = "decrypt"
        /\ ret'.op = "decrypt_env"
        /\ Unauthentic(loaded.map, cipher_type, held[cipher_type].key) # {})
       => /\ ~ret'.ok
          /\ ret'.failed # {}
          /\ ret'.failed \subseteq
                Unauthentic(loaded.map, cipher_type, held[cipher_type].key)
          /\ \A n \in DOMAIN loaded.map \ ret'.done :
                EnvVar(env', n) = EnvVar(env, n)
      ]_vars

\* decrypt_env panicked at an entry after it processed another, with a third
\* not yet processed.
C8_Witness ==
    /\ ret.op = "decrypt_env" /\ ~ret.ok
    /\ ret.done # {}
    /\ ret.failed # {}
    /\ DOMAIN loaded.map \ (ret.done \cup ret.failed) # {}

\* C9 (SpecConc): two set_enc_env calls for different names (no name of
\* ThreadNames is in the store at the start) that ran one after the other
\* both have their entry in the store.
C9_NoLossInSequence ==
    (/\ \A t \in Threads : threads[t].pc = "done"
     /\ ~overlap
     /\ threads[1].name # threads[2].name)
    => \A t \in Threads :
          /\ Trim(threads[t].name) \in DOMAIN Store
          /\ Store[Trim(threads[t].name)] = threads[t].value

\* Two calls for names that differ also when trimmed overlapped, and the file
\* holds the entry of only one of them.
C9_LostUpdate ==
    /\ \A t \in Threads : threads[t].pc = "done"
    /\ overlap
    /\ Trim(threads[1].name) # Trim(threads[2].name)
    /\ \E t, u \in Threads :
          /\ Trim(threads[t].name) \in DOMAIN Store
          /\ Store[Trim(threads[t].name)] = threads[t].value
          /\ Trim(threads[u].name) \notin DOMAIN Store

\* C10 (Spec): a set_enc_env call that found its var_name absent leaves a
\* file whose map is the map before the call plus the one new entry: every
\* name that was there is there with its value.
C10_InsertionPreservesStore ==
    [][(sets' = sets + 1 /\ ret'.op = "set_enc_env" /\ ret'.ok /\ ~ret'.exists)
       => LET before == StoreOfSet(file)
              after == StoreOfSet(file')
              name == Trim(ret'.name)
          IN  /\ \A k \in DOMAIN before : k \in DOMAIN after /\ after[k] = before[k]
              /\ DOMAIN after = DOMAIN before \cup {name}
              /\ after[name] = ret'.value
      ]_vars
=============================================================================
